---- MODULE Spec2Model ----
(***************************************************************************)
(* A model of restaurants.py: the parser read_restaurants, the filter      *)
(* filter_by_cuisine, the ranker build_rating_list and the orchestrator    *)
(* recommend.                                                              *)
(*                                                                         *)
(* Text is modelled as a sequence of symbols.  A symbol is one of the      *)
(* characters the code treats specially ("%", ",", the newline, a digit,   *)
(* "$") or an opaque run of other characters ("A", "t", ...).  A line of   *)
(* the file is the sequence of its symbols, its newline included, as the   *)
(* iteration `for line in file` yields it.                                 *)
(***************************************************************************)
EXTENDS Integers, Sequences, FiniteSets, TLC

VARIABLES
    dataset,              \* the records the data file was written from
    layout,               \* how the data file ends: "bare", "newline", "blank"
    file,                 \* the lines of FILENAME
    pc,                   \* position of the running call
    pos,                  \* index of the next line the for loop yields
    fileOpen,             \* the file object of line 131 is open
    first_list,           \* read_restaurants: the record being accumulated
    name_to_rating,       \* dict {name: rating text}
    price_to_names,       \* dict {price: list of names}
    cuisine_to_names,     \* dict {cuisine: list of names}
    price,                \* recommend's argument price
    cuisines_list,        \* recommend's / filter_by_cuisine's argument
    names_matching_price, \* recommend line 56 / filter_by_cuisine's argument
    names_final,          \* recommend line 60 / build_rating_list's argument
    result,               \* the list a call returned
    err                   \* the exception that ended the call, or "none"

vars == <<dataset, layout, file, pc, pos, fileOpen, first_list, name_to_rating,
          price_to_names, cuisine_to_names, price, cuisines_list,
          names_matching_price, names_final, result, err>>

(***************************************************************************)
(* Bounds of the model.                                                    *)
(***************************************************************************)
MaxRecords == 2
MaxNames == 3
MaxCuisines == 2
MaxTagged == 2

(***************************************************************************)
(* Text helpers.                                                           *)
(***************************************************************************)
NL == "\n"
PCT == "%"
COMMA == ","
DIGITS == <<"0", "1", "2", "3", "4", "5", "6", "7", "8", "9">>

Range(s) == {s[i] : i \in DOMAIN s}

Count(s, x) == Cardinality({i \in DOMAIN s : s[i] = x})

EmptyDict == [k \in {} |-> <<>>]

\* d[k] = v on a dict
DictSet(d, k, v) == [x \in (DOMAIN d) \cup {k} |-> IF x = k THEN v ELSE d[x]]

\* str.rstrip('%\n'): drop every trailing '%' and newline
RECURSIVE rstrip(_)
rstrip(s) ==
    IF s # <<>> /\ s[Len(s)] \in {PCT, NL}
    THEN rstrip(SubSeq(s, 1, Len(s) - 1))
    ELSE s

\* str.split(','): the pieces between commas; an empty text gives one empty piece
RECURSIVE split(_)
split(s) ==
    IF \E i \in DOMAIN s : s[i] = COMMA
    THEN LET i == CHOOSE j \in DOMAIN s :
                      s[j] = COMMA /\ \A k \in 1..(j - 1) : s[k] # COMMA
         IN  <<SubSeq(s, 1, i - 1)>> \o split(SubSeq(s, i + 1, Len(s)))
    ELSE <<s>>

IsDigit(c) == \E i \in DOMAIN DIGITS : DIGITS[i] = c

DigitVal(c) == (CHOOSE i \in DOMAIN DIGITS : DIGITS[i] = c) - 1

\* int(text) succeeds on a non-empty run of digits
IsInt(s) == s # <<>> /\ \A i \in DOMAIN s : IsDigit(s[i])

RECURSIVE int(_)
int(s) ==
    IF s = <<>> THEN 0
    ELSE 10 * int(SubSeq(s, 1, Len(s) - 1)) + DigitVal(s[Len(s)])

(***************************************************************************)
(* read_restaurants, lines 134-141 (and again lines 145-151): move the     *)
(* accumulated record first_list into the three tables.  Python evaluates  *)
(* the statements in order, so a failure leaves the earlier updates done.  *)
(***************************************************************************)
Flushed(e, n2r, p2n, c2n) ==
    [err |-> e, name_to_rating |-> n2r, price_to_names |-> p2n,
     cuisine_to_names |-> c2n]

\* lines 137-141: for b in first_list[3].split(','): the key test is on the
\* cuisine, not on the name
RECURSIVE add_cuisines(_, _, _)
add_cuisines(tokens, name, c2n) ==
    IF tokens = <<>> THEN c2n
    ELSE LET b == Head(tokens)
         IN  add_cuisines(Tail(tokens), name,
                 IF b \notin DOMAIN c2n
                 THEN DictSet(c2n, b, <<name>>)
                 ELSE DictSet(c2n, b, Append(c2n[b], name)))

flush_record(fl, n2r, p2n, c2n) ==
    IF Len(fl) < 2 THEN Flushed("IndexError", n2r, p2n, c2n)
    ELSE LET n2r1 == DictSet(n2r, fl[1], fl[2])
         IN  IF Len(fl) < 3 THEN Flushed("IndexError", n2r1, p2n, c2n)
             ELSE IF fl[3] \notin DOMAIN p2n
                  THEN Flushed("KeyError", n2r1, p2n, c2n)
             ELSE LET p2n1 == DictSet(p2n, fl[3], Append(p2n[fl[3]], fl[1]))
                  IN  IF Len(fl) < 4
                      THEN Flushed("IndexError", n2r1, p2n1, c2n)
                      ELSE Flushed("none", n2r1, p2n1,
                                   add_cuisines(split(fl[4]), fl[1], c2n))

(***************************************************************************)
(* recommend, line 56: price_to_names[price]                               *)
(***************************************************************************)
\* a lookup that answers an unknown price with an empty list, as
\* price_to_names.get(price, []) would
price_lookup_defaulting(p2n, p) ==
    [err |-> "none", names |-> IF p \in DOMAIN p2n THEN p2n[p] ELSE <<>>]

price_lookup(p2n, p) ==
    IF p \in DOMAIN p2n
    THEN [err |-> "none", names |-> p2n[p]]
    ELSE [err |-> "KeyError", names |-> <<>>]

(***************************************************************************)
(* filter_by_cuisine, lines 104-116.                                       *)
(***************************************************************************)
\* lines 107-109: append the names not yet accumulated
RECURSIVE accumulate_names(_, _)
accumulate_names(acc, names) ==
    IF names = <<>> THEN acc
    ELSE accumulate_names(
             IF Head(names) \notin Range(acc) THEN Append(acc, Head(names)) ELSE acc,
             Tail(names))

\* lines 104-109: the union of the requested cuisines' lists
RECURSIVE list_accumulator(_, _, _)
list_accumulator(acc, c2n, cl) ==
    IF cl = <<>> THEN acc
    ELSE list_accumulator(
             IF Head(cl) \in DOMAIN c2n
             THEN accumulate_names(acc, c2n[Head(cl)])
             ELSE acc,
             c2n, Tail(cl))

\* lines 111-114: the candidates found in the accumulator, in candidate order
RECURSIVE keep_listed(_, _)
keep_listed(nmp, acc) ==
    IF nmp = <<>> THEN <<>>
    ELSE (IF Head(nmp) \in Range(acc) THEN <<Head(nmp)>> ELSE <<>>)
         \o keep_listed(Tail(nmp), acc)

\* a filter that walks the accumulator and keeps the names found among the
\* candidates, so that the output follows the cuisines' order
filter_in_cuisine_order(nmp, c2n, cl) ==
    keep_listed(list_accumulator(<<>>, c2n, cl), nmp)

filter_by_cuisine(nmp, c2n, cl) ==
    keep_listed(nmp, list_accumulator(<<>>, c2n, cl))

(***************************************************************************)
(* build_rating_list, lines 82-87.  Line 86 calls sorted(), which builds a *)
(* new list and leaves new_list as it is; the new list is dropped, and     *)
(* line 87 returns new_list.                                               *)
(***************************************************************************)
RECURSIVE new_list(_, _)
new_list(n2r, nf) ==
    IF nf = <<>> THEN <<>>
    ELSE (IF Head(nf) \in DOMAIN n2r
          THEN <<  <<int(n2r[Head(nf)]), Head(nf)>>  >>
          ELSE <<>>)
         \o new_list(n2r, Tail(nf))

\* int() of line 85 raises ValueError on a rating that is no number
rating_error(n2r, nf) ==
    IF \E i \in DOMAIN nf : nf[i] \in DOMAIN n2r /\ ~IsInt(n2r[nf[i]])
    THEN "ValueError" ELSE "none"

\* a ranker that rates a name absent from the table 0, as
\* name_to_rating.get(z, 0) would, instead of dropping it
RECURSIVE build_rating_list_defaulting(_, _)
build_rating_list_defaulting(n2r, nf) ==
    IF nf = <<>> THEN <<>>
    ELSE <<  <<IF Head(nf) \in DOMAIN n2r THEN int(n2r[Head(nf)]) ELSE 0,
               Head(nf)>>  >>
         \o build_rating_list_defaulting(n2r, Tail(nf))

build_rating_list(n2r, nf) == new_list(n2r, nf)

(***************************************************************************)
(* The data file.  A record is written as four lines, name, rating with a  *)
(* trailing '%', price symbol and the cuisines joined by commas; records   *)
(* are separated by one blank line.  After the last record the file ends   *)
(* at once ("bare"), after its newline ("newline"), or after a blank line  *)
(* ("blank").  A record of fewer than four fields is a truncated one.      *)
(***************************************************************************)
Tier1 == <<"$">>
Tier2 == <<"$", "$">>
Tier3 == <<"$", "$", "$">>
Tier4 == <<"$", "$", "$", "$">>
Tiers == {Tier1, Tier2, Tier3, Tier4}
NoTier == <<"$", "$", "$", "$", "$">>

RECURSIVE Digits(_)
Digits(n) ==
    IF n < 10 THEN <<DIGITS[n + 1]>>
    ELSE Append(Digits(n \div 10), DIGITS[(n % 10) + 1])

RECURSIVE Join(_)
Join(cs) ==
    IF cs = <<>> THEN <<>>
    ELSE IF Len(cs) = 1 THEN cs[1]
    ELSE cs[1] \o <<COMMA>> \o Join(Tail(cs))

Rec(n, r, p, cs, k) ==
    [name |-> n, rating |-> r, price |-> p, cuisines |-> cs, fields |-> k]

RecordLines(r) ==
    SubSeq(<<r.name, Digits(r.rating) \o <<PCT>>, r.price, Join(r.cuisines)>>,
           1, r.fields)

\* every line but the file's last ends with a newline
WithNewlines(ls) == [i \in DOMAIN ls |-> Append(ls[i], NL)]

RECURSIVE Body(_)
Body(ds) ==
    IF ds = <<>> THEN <<>>
    ELSE IF Len(ds) = 1 THEN WithNewlines(RecordLines(ds[1]))
    ELSE WithNewlines(RecordLines(ds[1])) \o << <<NL>> >> \o Body(Tail(ds))

Encode(ds, lay) ==
    LET b == Body(ds)
    IN  IF b = <<>> THEN <<>>
        ELSE IF lay = "bare"
             THEN [b EXCEPT ![Len(b)] = SubSeq(b[Len(b)], 1, Len(b[Len(b)]) - 1)]
        ELSE IF lay = "newline" THEN b
        ELSE Append(b, <<NL>>)

Layouts == {"bare", "newline", "blank"}

NameA == <<"A">>
NameB == <<"B">>
NameAPct == <<"A", PCT>>
CuisT == <<"t">>
CuisC == <<"c">>
CuisZ == <<"z">>

WellFormedRecords ==
    {Rec(n, r, p, cs, 4) :
        n \in {NameA, NameB, NameAPct},
        r \in {7, 12},
        p \in {Tier1, Tier2},
        cs \in {<<CuisT>>, <<CuisC, CuisT>>}}

OddRecords ==
    {Rec(NameB, 7, Tier1, <<CuisT, CuisT>>, 4),   \* a cuisine written twice
     Rec(NameB, 7, NoTier, <<CuisT>>, 4),         \* a price outside the four tiers
     Rec(NameB, 7, Tier1, <<CuisT>>, 3)}          \* a truncated record

RecordPool == WellFormedRecords \cup OddRecords

\* the five records of the module docstring, lines 7-29
ExampleDataset ==
    <<Rec(<<"Georgie Porgie">>, 87, Tier3, <<<<"Canadian">>, <<"Pub Food">>>>, 4),
      Rec(<<"Queen St. Cafe">>, 82, Tier1, <<<<"Malaysian">>, <<"Thai">>>>, 4),
      Rec(<<"Dumplings R Us">>, 71, Tier1, <<<<"Chinese">>>>, 4),
      Rec(<<"Mexican Grill">>, 85, Tier2, <<<<"Mexican">>>>, 4),
      Rec(<<"Deep Fried Everything">>, 52, Tier1, <<<<"Pub Food">>>>, 4)>>

\* the query of the module docstring, lines 31-34
ExampleCuisines == <<<<"Chinese">>, <<"Thai">>>>
ExampleResult == << <<82, <<"Queen St. Cafe">>>>, <<71, <<"Dumplings R Us">>>> >>

Datasets ==
    UNION {[1..n -> RecordPool] : n \in 0..MaxRecords} \cup {ExampleDataset}

QueryPrices == {Tier1, Tier4, NoTier}
QueryCuisines == {<<CuisT>>, <<CuisC>>, <<CuisZ>>, <<CuisZ, CuisC>>, ExampleCuisines}

(***************************************************************************)
(* recommend(file, price, cuisines_list), one action per step.  A step     *)
(* that raises sets err and leaves pc where the exception was raised; no   *)
(* step of the call follows it (nothing in the module catches).  The       *)
(* exception's traceback refers to the frame of read_restaurants and so to *)
(* the file object: an exception leaves the file open when the call ends.  *)
(* price is fixed when the call starts; cuisines_list is not read before   *)
(* line 60 and is drawn there.                                             *)
(***************************************************************************)
Init ==
    /\ dataset \in Datasets
    /\ layout \in Layouts
    /\ dataset = <<>> => layout = "bare"
    /\ file = Encode(dataset, layout)
    /\ price \in QueryPrices
    /\ cuisines_list = <<>>
    /\ pc = "call"
    /\ pos = 1
    /\ fileOpen = FALSE
    /\ first_list = <<>>
    /\ name_to_rating = EmptyDict
    /\ price_to_names = EmptyDict
    /\ cuisine_to_names = EmptyDict
    /\ names_matching_price = <<>>
    /\ names_final = <<>>
    /\ result = <<>>
    /\ err = "none"

source == <<dataset, layout, file>>
tables == <<name_to_rating, price_to_names, cuisine_to_names>>
scan == <<first_list, pos, fileOpen>>

\* lines 127-131: the empty tables, and open(FILENAME)
open_file ==
    /\ pc = "call" /\ err = "none"
    /\ name_to_rating' = EmptyDict
    /\ price_to_names' = [t \in Tiers |-> <<>>]
    /\ cuisine_to_names' = EmptyDict
    /\ first_list' = <<>>
    /\ fileOpen' = TRUE
    /\ pos' = 1
    /\ pc' = "scan"
    /\ UNCHANGED <<source, price, cuisines_list, names_matching_price,
                   names_final, result, err>>

\* lines 132-142: a blank line flushes the accumulated record
scan_blank ==
    /\ pc = "scan" /\ err = "none"
    /\ pos <= Len(file)
    /\ file[pos] = <<NL>>
    /\ LET f == flush_record(first_list, name_to_rating, price_to_names,
                             cuisine_to_names)
       IN  /\ name_to_rating' = f.name_to_rating
           /\ price_to_names' = f.price_to_names
           /\ cuisine_to_names' = f.cuisine_to_names
           /\ err' = f.err
           /\ IF f.err = "none"
              THEN first_list' = <<>> /\ pos' = pos + 1
              ELSE UNCHANGED <<first_list, pos>>
    /\ UNCHANGED <<source, price, cuisines_list, names_matching_price,
                   names_final, result, fileOpen, pc>>

\* lines 143-144: any other line is accumulated, stripped
scan_line ==
    /\ pc = "scan" /\ err = "none"
    /\ pos <= Len(file)
    /\ file[pos] # <<NL>>
    /\ first_list' = Append(first_list, rstrip(file[pos]))
    /\ pos' = pos + 1
    /\ UNCHANGED <<source, tables, price, cuisines_list, names_matching_price,
                   names_final, result, fileOpen, pc, err>>

\* lines 145-151: after the loop the accumulated record is flushed
final_flush ==
    /\ pc = "scan" /\ err = "none"
    /\ pos > Len(file)
    /\ LET f == flush_record(first_list, name_to_rating, price_to_names,
                             cuisine_to_names)
       IN  /\ name_to_rating' = f.name_to_rating
           /\ price_to_names' = f.price_to_names
           /\ cuisine_to_names' = f.cuisine_to_names
           /\ err' = f.err
           /\ pc' = IF f.err = "none" THEN "close" ELSE "scan"
    /\ UNCHANGED <<source, scan, price, cuisines_list, names_matching_price,
                   names_final, result>>

\* lines 153-154: file.close(), and the tables are returned to line 52
close_file ==
    /\ pc = "close" /\ err = "none"
    /\ fileOpen' = FALSE
    /\ pc' = "lookup"
    /\ UNCHANGED <<source, tables, first_list, pos, price, cuisines_list,
                   names_matching_price, names_final, result, err>>

\* line 56
lookup_price ==
    /\ pc = "lookup" /\ err = "none"
    /\ LET l == price_lookup(price_to_names, price)
       IN  /\ names_matching_price' = l.names
           /\ err' = l.err
           /\ pc' = IF l.err = "none" THEN "filter" ELSE "lookup"
    /\ UNCHANGED <<source, tables, scan, price, cuisines_list, names_final,
                   result>>

\* line 60; cuisines_list is first read here, and is drawn here
filter_names ==
    /\ pc = "filter" /\ err = "none"
    /\ \E cl \in QueryCuisines :
          /\ cuisines_list' = cl
          /\ names_final' = filter_by_cuisine(names_matching_price,
                                              cuisine_to_names, cl)
    /\ pc' = "rank"
    /\ UNCHANGED <<source, tables, scan, price, names_matching_price, result,
                   err>>

\* lines 64-66
rank_names ==
    /\ pc = "rank" /\ err = "none"
    /\ err' = rating_error(name_to_rating, names_final)
    /\ IF err' = "none"
       THEN result' = build_rating_list(name_to_rating, names_final)
            /\ pc' = "returned"
       ELSE UNCHANGED <<result, pc>>
    /\ UNCHANGED <<source, tables, scan, price, cuisines_list,
                   names_matching_price, names_final>>

Next ==
    \/ open_file
    \/ scan_blank
    \/ scan_line
    \/ final_flush
    \/ close_file
    \/ lookup_price
    \/ filter_names
    \/ rank_names

Spec == Init /\ [][Next]_vars

(***************************************************************************)
(* filter_by_cuisine called on its own: every candidate list, cuisine      *)
(* index and list of requested cuisines within the bounds.                 *)
(***************************************************************************)
SeqsUpTo(S, n) == UNION {[1..k -> S] : k \in 0..n}

Dicts(K, V) == UNION {[D -> V] : D \in SUBSET K}

InitFilter ==
    /\ names_matching_price \in SeqsUpTo({NameA, NameB}, MaxNames)
    /\ cuisine_to_names \in Dicts({CuisT, CuisC}, SeqsUpTo({NameA, NameB}, MaxTagged))
    /\ cuisines_list \in SeqsUpTo({CuisT, CuisC, CuisZ}, MaxCuisines)
    /\ pc = "filter_call"
    /\ dataset = <<>> /\ layout = "bare" /\ file = <<>>
    /\ pos = 1 /\ fileOpen = FALSE /\ first_list = <<>>
    /\ name_to_rating = EmptyDict /\ price_to_names = EmptyDict
    /\ price = Tier1
    /\ names_final = <<>> /\ result = <<>>
    /\ err = "none"

apply_filter_by_cuisine ==
    /\ pc = "filter_call"
    /\ names_final' = filter_by_cuisine(names_matching_price, cuisine_to_names,
                                        cuisines_list)
    /\ pc' = "filter_done"
    /\ UNCHANGED <<source, tables, scan, price, cuisines_list,
                   names_matching_price, result, err>>

SpecFilter == InitFilter /\ [][apply_filter_by_cuisine]_vars

(***************************************************************************)
(* build_rating_list called on its own: every rating table and list of     *)
(* names within the bounds.  The table holds the rating texts that         *)
(* read_restaurants stores, and "x", a text that is no number.             *)
(***************************************************************************)
RatingTexts == {<<"7">>, <<"1", "2">>, <<"x">>}

InitRank ==
    /\ name_to_rating \in Dicts({NameA, NameB, NameAPct}, RatingTexts)
    /\ names_final \in SeqsUpTo({NameA, NameB, NameAPct}, MaxNames)
    /\ pc = "rank_call"
    /\ dataset = <<>> /\ layout = "bare" /\ file = <<>>
    /\ pos = 1 /\ fileOpen = FALSE /\ first_list = <<>>
    /\ price_to_names = EmptyDict /\ cuisine_to_names = EmptyDict
    /\ price = Tier1 /\ cuisines_list = <<>>
    /\ names_matching_price = <<>> /\ result = <<>>
    /\ err = "none"

apply_build_rating_list ==
    /\ pc = "rank_call"
    /\ err' = rating_error(name_to_rating, names_final)
    /\ IF err' = "none"
       THEN result' = build_rating_list(name_to_rating, names_final)
            /\ pc' = "rank_done"
       ELSE UNCHANGED <<result, pc>>
    /\ UNCHANGED <<source, tables, scan, price, cuisines_list,
                   names_matching_price, names_final>>

SpecRank == InitRank /\ [][apply_build_rating_list]_vars

(***************************************************************************)
(* Properties.                                                             *)
(***************************************************************************)
NoRepeat(s) == \A i, j \in DOMAIN s : i # j => s[i] # s[j]

RECURSIVE IsSubsequence(_, _)
IsSubsequence(s, t) ==
    IF s = <<>> THEN TRUE
    ELSE IF t = <<>> THEN FALSE
    ELSE IF Head(s) = Head(t) THEN IsSubsequence(Tail(s), Tail(t))
    ELSE IsSubsequence(s, Tail(t))

\* the call of recommend has ended, by a return or by an exception
Ended == pc = "returned" \/ err # "none"

\* read_restaurants has returned its tables
ReadReturned == pc \in {"lookup", "filter", "rank", "returned"}

\* the call of read_restaurants has ended, by its return or by an exception
ReadEnded == ReadReturned \/ (pc = "scan" /\ err # "none")

\* four-field records with a price among the four tiers
WellFormed(ds) == \A i \in DOMAIN ds : ds[i].fields = 4 /\ ds[i].price \in Tiers

UniqueNames(ds) == \A i, j \in DOMAIN ds : i # j => ds[i].name # ds[j].name

\* no name ends with a '%'
PlainNames(ds) == \A i \in DOMAIN ds : ds[i].name[Len(ds[i].name)] # PCT

\* the records in price tier p tagged with one of the cuisines cl
Matching(ds, p, cl) ==
    {i \in DOMAIN ds :
        ds[i].price = p /\ \E k \in DOMAIN cl : cl[k] \in Range(ds[i].cuisines)}

Entry(r) == <<r.rating, r.name>>

\* res holds one entry for each matching record, and nothing else
ExactResult(ds, p, cl, res) ==
    /\ \A i \in Matching(ds, p, cl) : Count(res, Entry(ds[i])) = 1
    /\ \A k \in DOMAIN res : \E i \in Matching(ds, p, cl) : res[k] = Entry(ds[i])

\* the three tables hold record r
Holds(r) ==
    /\ r.name \in DOMAIN name_to_rating
    /\ IsInt(name_to_rating[r.name])
    /\ int(name_to_rating[r.name]) = r.rating
    /\ r.name \in Range(price_to_names[r.price])
    /\ \A c \in Range(r.cuisines) :
          c \in DOMAIN cuisine_to_names /\ r.name \in Range(cuisine_to_names[c])

TierCount(n) ==
    Count(price_to_names[Tier1], n) + Count(price_to_names[Tier2], n)
    + Count(price_to_names[Tier3], n) + Count(price_to_names[Tier4], n)

\* C1: the list build_rating_list returns (and so the list recommend
\* returns) is sorted by rating descending: of two adjacent entries the
\* earlier one's rating is greater than or equal to the later one's.
C1_SortedByRatingDescending ==
    pc \in {"rank_done", "returned"} =>
        \A i \in 1..(Len(result) - 1) : result[i][1] >= result[i + 1][1]

\* C2: for every dataset of well-formed records with distinct names, written
\* in any of the three layouts, and every price among the four tiers, the
\* call of recommend returns, and returns exactly one [rating, name] entry
\* for each restaurant of the price tier tagged with a requested cuisine.
C2_RecommendReturnsMatches ==
    (/\ Ended
     /\ dataset # <<>> /\ WellFormed(dataset)
     /\ UniqueNames(dataset) /\ PlainNames(dataset)
     /\ price \in Tiers)
    => /\ pc = "returned"
       /\ ExactResult(dataset, price, cuisines_list, result)

\* C2, where the parser accepts the file (it does not end with a blank
\* line): the returned list is exactly the matching restaurants' entries.
C2_MatchesWithoutTrailingBlank ==
    (/\ Ended
     /\ dataset # <<>> /\ WellFormed(dataset)
     /\ UniqueNames(dataset) /\ PlainNames(dataset)
     /\ layout # "blank"
     /\ price \in Tiers)
    => /\ pc = "returned"
       /\ ExactResult(dataset, price, cuisines_list, result)

\* C2, the docstring's example: when the file of the five records does not
\* end with a blank line, price '$' and cuisines ['Chinese', 'Thai'] give
\* [[82, 'Queen St. Cafe'], [71, 'Dumplings R Us']].
C2_ExampleWithoutTrailingBlank ==
    (/\ Ended
     /\ dataset = ExampleDataset /\ layout # "blank"
     /\ price = Tier1
     /\ pc = "returned" => cuisines_list = ExampleCuisines)
    => pc = "returned" /\ result = ExampleResult

\* C3: the output of filter_by_cuisine is a subsequence of the candidate
\* list and contains no name twice.
C3_SubsequenceWithoutRepeat ==
    pc = "filter_done" =>
        /\ IsSubsequence(names_final, names_matching_price)
        /\ NoRepeat(names_final)

\* C3, amended: the output of filter_by_cuisine is a subsequence of the
\* candidate list, and contains no name twice when the candidate list
\* contains no name twice, however often the cuisine index lists a name
\* under the requested cuisines.
C3_SubsequenceRepeatsOnlyCandidates ==
    pc = "filter_done" =>
        /\ IsSubsequence(names_final, names_matching_price)
        /\ NoRepeat(names_matching_price) => NoRepeat(names_final)

\* C3, witness: distinct candidates, both kept, one of them listed under two
\* of the requested cuisines.
C3_Witness ==
    /\ pc = "filter_done"
    /\ NoRepeat(names_matching_price)
    /\ Len(names_final) = 2
    /\ cuisines_list = <<CuisT, CuisC>>
    /\ DOMAIN cuisine_to_names = {CuisT, CuisC}
    /\ \E n \in Range(names_final) :
          n \in Range(cuisine_to_names[CuisT]) /\ n \in Range(cuisine_to_names[CuisC])

\* C4: the list build_rating_list returns is at most as long as the list of
\* names, and as long exactly when every name is a key of the rating table;
\* a name absent from the table raises no error.
C4_LengthAndDrops ==
    /\ pc = "rank_done" =>
          /\ Len(result) <= Len(names_final)
          /\ Len(result) = Len(names_final)
                <=> \A i \in DOMAIN names_final : names_final[i] \in DOMAIN name_to_rating
    /\ (pc = "rank_call" /\ err # "none") =>
          \E i \in DOMAIN names_final :
              /\ names_final[i] \in DOMAIN name_to_rating
              /\ ~IsInt(name_to_rating[names_final[i]])

\* C4, witness: a returned list with an entry, shorter than the list of names.
C4_Witness ==
    /\ pc = "rank_done"
    /\ Len(result) > 0
    /\ Len(result) < Len(names_final)

\* C5: for every valid dataset (four-field records, distinct names, prices
\* among the four tiers), after read_restaurants every name of a tier list is
\* a key of the rating table and occurs once, in one tier list.
C5_TierNamesRatedOnce ==
    (ReadReturned /\ WellFormed(dataset) /\ UniqueNames(dataset))
    => \A t \in Tiers : \A n \in Range(price_to_names[t]) :
           n \in DOMAIN name_to_rating /\ TierCount(n) = 1

\* C5, where no name ends with a '%': the property holds.
C5_PlainNamesRatedOnce ==
    (ReadReturned /\ WellFormed(dataset) /\ UniqueNames(dataset)
     /\ PlainNames(dataset))
    => \A t \in Tiers : \A n \in Range(price_to_names[t]) :
           n \in DOMAIN name_to_rating /\ TierCount(n) = 1

\* C6: for every file of well-formed records separated by single blank lines,
\* whether or not a blank line follows the last record, read_restaurants
\* returns, and its tables hold every record of the file.
C6_EveryRecordRead ==
    (/\ ReadEnded
     /\ dataset # <<>> /\ WellFormed(dataset)
     /\ UniqueNames(dataset) /\ PlainNames(dataset))
    => /\ ReadReturned
       /\ \A i \in DOMAIN dataset : Holds(dataset[i])

\* C6, where no blank line follows the last record: the tables hold every
\* record, the last one included.
C6_EveryRecordReadWithoutTrailingBlank ==
    (/\ ReadEnded
     /\ dataset # <<>> /\ WellFormed(dataset)
     /\ UniqueNames(dataset) /\ PlainNames(dataset)
     /\ layout # "blank")
    => /\ ReadReturned
       /\ \A i \in DOMAIN dataset : Holds(dataset[i])

\* C7: for every dataset with no record in tier '$$$$', recommend called
\* with price '$$$$' does not fail and returns the empty list.
C7_EmptyTierReturnsEmpty ==
    (/\ Ended
     /\ price = Tier4
     /\ dataset # <<>> /\ WellFormed(dataset)
     /\ \A i \in DOMAIN dataset : dataset[i].price # Tier4)
    => pc = "returned" /\ result = <<>>

\* C7, where the file does not end with a blank line: the call returns the
\* empty list.
C7_EmptyTierWithoutTrailingBlank ==
    (/\ Ended
     /\ price = Tier4
     /\ dataset # <<>> /\ WellFormed(dataset)
     /\ layout # "blank"
     /\ \A i \in DOMAIN dataset : dataset[i].price # Tier4)
    => pc = "returned" /\ result = <<>>

\* C8: recommend called with a price outside the four tiers ends with a
\* lookup error (KeyError, IndexError) and returns no list, and never gets
\* past the lookup of line 56, where the error is KeyError; the cuisine
\* filter is reached without an error pending, a requested cuisine absent
\* from the cuisine index adds no name to the result, and a query whose
\* cuisines are all absent returns the empty list.
C8_LookupErrorAndAbsentCuisines ==
    /\ (Ended /\ price \notin Tiers) =>
          pc # "returned" /\ err \in {"KeyError", "IndexError"} /\ result = <<>>
    /\ pc \in {"filter", "rank", "returned"} => price \in Tiers
    /\ (pc = "lookup" /\ err # "none") => (err = "KeyError" /\ price \notin Tiers)
    /\ pc = "filter" => err = "none"
    /\ pc \in {"rank", "returned"} =>
          Range(names_final) =
              {n \in Range(names_matching_price) :
                  \E k \in DOMAIN cuisines_list :
                      /\ cuisines_list[k] \in DOMAIN cuisine_to_names
                      /\ n \in Range(cuisine_to_names[cuisines_list[k]])}
    /\ (/\ pc = "returned"
        /\ \A k \in DOMAIN cuisines_list :
              cuisines_list[k] \notin DOMAIN cuisine_to_names)
       => result = <<>>

\* C8, witness: the tables were read from a file of records, and the lookup
\* of an unknown price raised KeyError.
C8_Witness ==
    /\ pc = "lookup"
    /\ err = "KeyError"
    /\ price \notin Tiers
    /\ dataset # <<>>

\* C8, the absent cuisine: a query naming an absent cuisine and a present one
\* returned the present one's restaurants.
C8_WitnessAbsentCuisine ==
    /\ pc = "returned"
    /\ cuisines_list = <<CuisZ, CuisC>>
    /\ CuisZ \notin DOMAIN cuisine_to_names
    /\ result # <<>>

\* C9: after read_restaurants, no list of the cuisine index holds a name
\* twice, also when a record's cuisine line repeats a cuisine.
C9_CuisineListsWithoutRepeat ==
    (/\ ReadReturned
     /\ WellFormed(dataset) /\ UniqueNames(dataset) /\ PlainNames(dataset))
    => \A c \in DOMAIN cuisine_to_names : NoRepeat(cuisine_to_names[c])

\* C10: when the call of read_restaurants on a file of records ends, by its
\* return or by an exception raised while parsing, the file it opened is
\* closed.
C10_FileClosedOnExit == (ReadEnded /\ dataset # <<>>) => ~fileOpen

====
